---- MODULE Spec2Model ----
(***************************************************************************)
(* Resume & JD Matching Engine: the response parser of                     *)
(* get_matching_score_summary_and_edits (main.py), the Streamlit script    *)
(* run (streamlit_app.py) and the index assembly of get_rag_chain          *)
(* (main.py).  Text is modelled by TLA+ strings; the string operations of  *)
(* the code (split, strip, in, startswith, int) are computed on them.      *)
(***************************************************************************)
EXTENDS Integers, Sequences, FiniteSets, TLC

VARIABLES
    pc,               \* position of get_matching_score_summary_and_edits
    response_text,    \* main.py:84
    lines,            \* main.py:90
    idx,              \* number of lines the for loop has consumed
    score,            \* main.py:86
    summary,          \* main.py:87
    suggested_edits,  \* main.py:88
    current_section,  \* main.py:92
    result,           \* the returned dict, main.py:111
    \* the Streamlit script, streamlit_app.py
    ui_pc,            \* position of main() in the current script run
    clicked,          \* the button whose click started the run, if any
    groq_api_key,     \* value of the sidebar text input, line 53
    env_key,          \* os.environ["GROQ_API_KEY"]
    uploaded_file,    \* value of the file uploader, line 71
    input_method,     \* value of the radio, line 106
    jd_area,          \* content of the job description text area, line 110
    url,              \* value of the URL text input, line 116
    tmp_files,        \* temporary files on disk, lines 80-100
    resume_text,      \* line 77
    jd_text,          \* line 108
    messages,         \* what the run has rendered so far
    analysis_calls,   \* arguments of the calls at line 154 in this run
    results,          \* line 154
    page_jd,          \* jd_text of the run whose page the user acted on
    \* get_rag_chain, main.py:34-52
    rag_pc,           \* position of get_rag_chain
    resume_content,   \* argument
    jd_content,       \* argument
    text_splitter,    \* line 35
    split_calls,      \* the create_documents calls made, lines 36-37
    resume_docs,      \* line 36
    jd_docs,          \* line 37
    embeddings,       \* line 39
    vectorstore,      \* line 41
    qa_chain,         \* line 46, the value returned
    embed_error,      \* what the embedding model raised, "" when nothing
    rag_exc           \* the exception that left get_rag_chain, "" when none

parserVars == <<pc, response_text, lines, idx, score, summary,
                suggested_edits, current_section, result>>

uiVars == <<ui_pc, clicked, groq_api_key, env_key, uploaded_file,
            input_method, jd_area, url, tmp_files, resume_text, jd_text,
            messages, analysis_calls, results, page_jd>>

ragVars == <<rag_pc, resume_content, jd_content, text_splitter, split_calls,
             resume_docs, jd_docs, embeddings, vectorstore, qa_chain,
             embed_error, rag_exc>>

vars == <<parserVars, uiVars, ragVars>>

-----------------------------------------------------------------------------
(* Bounds of the explored inputs *)

MaxLines == 3

MaxChunks == 2

-----------------------------------------------------------------------------
(* Python values *)

\* Python None; an int n is modelled as <<n>>
None == <<>>

Some(n) == <<n>>

\* current_section = None, main.py:92
NoSection == "none"

-----------------------------------------------------------------------------
(* Python string operations *)

Char(s, i) == SubSeq(s, i, i)

\* str.strip() with no argument removes ASCII whitespace
IsSpace(c) == c \in {" ", "\t", "\r", "\n"}

Strip(s) ==
    LET keep == {i \in 1..Len(s) : ~IsSpace(Char(s, i))}
    IN  IF keep = {} THEN ""
        ELSE LET first == CHOOSE i \in keep : \A j \in keep : i <= j
                 last  == CHOOSE i \in keep : \A j \in keep : j <= i
             IN  SubSeq(s, first, last)

\* needle in s
Contains(s, needle) ==
    \E i \in 1..(Len(s) - Len(needle) + 1) :
        SubSeq(s, i, i + Len(needle) - 1) = needle

StartsWith(s, prefix) ==
    /\ Len(s) >= Len(prefix)
    /\ SubSeq(s, 1, Len(prefix)) = prefix

\* s.find(c) for a one-character separator, 1-based, 0 when absent
Find(s, c) ==
    LET hits == {i \in 1..Len(s) : Char(s, i) = c}
    IN  IF hits = {} THEN 0 ELSE CHOOSE i \in hits : \A j \in hits : i <= j

RECURSIVE Split(_, _)
\* s.split(c): every occurrence of c separates two parts
Split(s, c) ==
    LET i == Find(s, c)
    IN  IF i = 0 THEN <<s>>
        ELSE <<SubSeq(s, 1, i - 1)>> \o Split(SubSeq(s, i + 1, Len(s)), c)

\* s.split(c, 1): at most one split, at the first occurrence of c
Split1(s, c) ==
    LET i == Find(s, c)
    IN  IF i = 0 THEN <<s>>
        ELSE <<SubSeq(s, 1, i - 1), SubSeq(s, i + 1, Len(s))>>

RECURSIVE Join(_, _)
\* sep.join(parts)
Join(parts, sep) ==
    IF Len(parts) = 0 THEN ""
    ELSE IF Len(parts) = 1 THEN parts[1]
    ELSE parts[1] \o sep \o Join(Tail(parts), sep)

Digits == {"0", "1", "2", "3", "4", "5", "6", "7", "8", "9"}

DigitVal(c) ==
    CASE c = "0" -> 0 [] c = "1" -> 1 [] c = "2" -> 2 [] c = "3" -> 3
      [] c = "4" -> 4 [] c = "5" -> 5 [] c = "6" -> 6 [] c = "7" -> 7
      [] c = "8" -> 8 [] c = "9" -> 9

RECURSIVE DecimalValue(_, _)
\* value of a digit string (underscores skipped), most significant first
DecimalValue(s, acc) ==
    IF s = "" THEN acc
    ELSE IF Head(s) = "_" THEN DecimalValue(Tail(s), acc)
    ELSE DecimalValue(Tail(s), 10 * acc + DigitVal(Head(s)))

\* int(s) of Python 3: surrounding whitespace, one optional sign, decimal
\* digits with single underscores between digits; anything else raises
\* ValueError.  The outcome is [exc, val].
PyInt(s) ==
    LET t      == Strip(s)
        signed == t # "" /\ Head(t) \in {"+", "-"}
        body   == IF signed THEN Tail(t) ELSE t
        wellFormed ==
            /\ body # ""
            /\ \A i \in 1..Len(body) : Char(body, i) \in Digits \cup {"_"}
            /\ Head(body) # "_"
            /\ Char(body, Len(body)) # "_"
            /\ \A i \in 1..(Len(body) - 1) :
                   ~(Char(body, i) = "_" /\ Char(body, i + 1) = "_")
        magnitude == DecimalValue(body, 0)
    IN  IF ~wellFormed THEN [exc |-> "ValueError", val |-> 0]
        ELSE [exc |-> "none",
              val |-> IF signed /\ Head(t) = "-" THEN 0 - magnitude
                      ELSE magnitude]

-----------------------------------------------------------------------------
(* The line loop of get_matching_score_summary_and_edits *)

ScoreMarker == "Matching Score:"

SummaryMarker == "Summary:"

EditsMarker == "Suggested Edits:"

\* variant: the part after the slash is parsed
ScoreAttempt_Denominator(line) ==
    LET parts == Split(line, ":")
    IN  IF Len(parts) < 2 THEN [exc |-> "IndexError", val |-> 0]
        ELSE LET score_part == Strip(parts[2])
                 pieces == Split(score_part, "/")
             IN  PyInt(pieces[Len(pieces)])

\* variant: a score text without a slash fails with IndexError
ScoreAttempt_RequireSlash(line) ==
    LET parts == Split(line, ":")
    IN  IF Len(parts) < 2 THEN [exc |-> "IndexError", val |-> 0]
        ELSE LET score_part == Strip(parts[2])
                 pieces == Split(score_part, "/")
             IN  IF Len(pieces) < 2 THEN [exc |-> "IndexError", val |-> 0]
                 ELSE PyInt(pieces[1])

\* the body of the try block, main.py:97-98; the outcome is [exc, val]
ScoreAttempt(line) ==
    LET parts == Split(line, ":")
    IN  IF Len(parts) < 2 THEN [exc |-> "IndexError", val |-> 0]
        ELSE LET score_part == Strip(parts[2])
             IN  PyInt(Split(score_part, "/")[1])

\* variant: only IndexError is caught
CaughtHere_NoValueError == {"IndexError"}

\* except (ValueError, IndexError), main.py:99

CaughtHere == {"ValueError", "IndexError"}

\* the except clause on the outcome a of the try block, main.py:99-100
Handled(a) ==
    IF a.exc = "none" THEN [exc |-> "none", score |-> Some(a.val)]
    ELSE IF a.exc \in CaughtHere THEN [exc |-> "none", score |-> None]
    ELSE [exc |-> a.exc, score |-> None]

\* the try statement, main.py:96-100: [exc, score]
ParseScore(line) == Handled(ScoreAttempt(line))

\* variant: the line is split at every colon
SummarySeed_EveryColon(line) ==
    LET parts == Split(line, ":")
    IN  IF Len(parts) < 2 THEN [exc |-> "IndexError", text |-> ""]
        ELSE [exc |-> "none", text |-> Strip(parts[2])]

\* line.split(':', 1)[1].strip(), main.py:103: [exc, text]
SummarySeed(line) ==
    LET parts == Split1(line, ":")
    IN  IF Len(parts) < 2 THEN [exc |-> "IndexError", text |-> ""]
        ELSE [exc |-> "none", text |-> Strip(parts[2])]

\* variant: a '-' line is appended to the edits whatever the section
Branch_AnySection(line, section) ==
    IF Contains(line, ScoreMarker) THEN "score"
    ELSE IF Contains(line, SummaryMarker) THEN "summary"
    ELSE IF Contains(line, EditsMarker) THEN "edits"
    ELSE IF StartsWith(Strip(line), "-") THEN "append_edit"
    ELSE IF section = "summary" THEN "append_summary"
    ELSE "drop"

\* variant: the summary marker is tested before the score marker
Branch_SummaryFirst(line, section) ==
    IF Contains(line, SummaryMarker) THEN "summary"
    ELSE IF Contains(line, ScoreMarker) THEN "score"
    ELSE IF Contains(line, EditsMarker) THEN "edits"
    ELSE IF section = "edits" /\ StartsWith(Strip(line), "-") THEN "append_edit"
    ELSE IF section = "summary" THEN "append_summary"
    ELSE "drop"

\* variant: every non-marker line of the edits section is appended
Branch_EditsKeepEveryLine(line, section) ==
    IF Contains(line, ScoreMarker) THEN "score"
    ELSE IF Contains(line, SummaryMarker) THEN "summary"
    ELSE IF Contains(line, EditsMarker) THEN "edits"
    ELSE IF section = "edits" THEN "append_edit"
    ELSE IF section = "summary" THEN "append_summary"
    ELSE "drop"

\* variant: text after a score line is taken as summary text
Branch_ScoreTextIntoSummary(line, section) ==
    IF Contains(line, ScoreMarker) THEN "score"
    ELSE IF Contains(line, SummaryMarker) THEN "summary"
    ELSE IF Contains(line, EditsMarker) THEN "edits"
    ELSE IF section = "edits" /\ StartsWith(Strip(line), "-") THEN "append_edit"
    ELSE IF section \in {"summary", "score"} THEN "append_summary"
    ELSE "drop"

\* which branch of the if/elif chain a line takes, main.py:94-108
Branch(line, section) ==
    IF Contains(line, ScoreMarker) THEN "score"
    ELSE IF Contains(line, SummaryMarker) THEN "summary"
    ELSE IF Contains(line, EditsMarker) THEN "edits"
    ELSE IF section = "edits" /\ StartsWith(Strip(line), "-") THEN "append_edit"
    ELSE IF section = "summary" THEN "append_summary"
    ELSE "drop"

\* variant: a score line that does not parse keeps the earlier score
ScoreBranch_KeepsEarlierScore(st, p) ==
    [st EXCEPT !.current_section = "score",
               !.score = IF p.exc = "none" /\ p.score # None THEN p.score ELSE @,
               !.exc = p.exc]

\* main.py:95-100 on the loop's state, p the outcome of the try statement
ScoreBranch(st, p) ==
    [st EXCEPT !.current_section = "score",
               !.score = IF p.exc = "none" THEN p.score ELSE @,
               !.exc = p.exc]

\* main.py:102-103 on the loop's state, s the outcome of the split
SummaryBranch(st, s) ==
    [st EXCEPT !.current_section = "summary",
               !.summary = IF s.exc = "none" THEN s.text ELSE @,
               !.exc = s.exc]

\* variant: an edits marker line starts the list of edits afresh
ProcessLine_EditsMarkerClears(st, line) ==
    LET b == Branch(line, st.current_section)
    IN  CASE b = "score" -> ScoreBranch(st, ParseScore(line))
          [] b = "summary" -> SummaryBranch(st, SummarySeed(line))
          [] b = "edits" ->
               [st EXCEPT !.current_section = "edits", !.suggested_edits = <<>>]
          [] b = "append_edit" ->
               [st EXCEPT !.suggested_edits = Append(@, Strip(line))]
          [] b = "append_summary" ->
               [st EXCEPT !.summary = @ \o "\n" \o Strip(line)]
          [] OTHER -> st

\* variant: a Summary marker line leaves the current section as it is
ProcessLine_SummaryKeepsSection(st, line) ==
    LET b == Branch(line, st.current_section)
    IN  CASE b = "score" -> ScoreBranch(st, ParseScore(line))
          [] b = "summary" ->
               [SummaryBranch(st, SummarySeed(line))
                    EXCEPT !.current_section = st.current_section]
          [] b = "edits" ->
               [st EXCEPT !.current_section = "edits"]
          [] b = "append_edit" ->
               [st EXCEPT !.suggested_edits = Append(@, Strip(line))]
          [] b = "append_summary" ->
               [st EXCEPT !.summary = @ \o "\n" \o Strip(line)]
          [] OTHER -> st

\* one iteration of the for loop, main.py:93-109, on the loop's state
\* st = [score, summary, suggested_edits, current_section, exc]
ProcessLine(st, line) ==
    LET b == Branch(line, st.current_section)
    IN  CASE b = "score" -> ScoreBranch(st, ParseScore(line))
          [] b = "summary" -> SummaryBranch(st, SummarySeed(line))
          [] b = "edits" ->
               [st EXCEPT !.current_section = "edits"]
          [] b = "append_edit" ->
               [st EXCEPT !.suggested_edits = Append(@, Strip(line))]
          [] b = "append_summary" ->
               [st EXCEPT !.summary = @ \o "\n" \o Strip(line)]
          [] OTHER -> st

\* main.py:86-92
InitialLoopState ==
    [score |-> None, summary |-> "", suggested_edits |-> <<>>,
     current_section |-> NoSection, exc |-> "none"]

\* response_text.split('\n'), main.py:90
SplitLines(text) == Split(text, "\n")

-----------------------------------------------------------------------------
(* Response texts explored *)

\* lines a response is assembled from
LinePool ==
    { "",
      "Matching Score: 82/100",
      "Matching Score: N/A",
      "Matching Score: 82",
      "Matching Score: high",
      "Matching Score: 150/100",
      "Matching Score: -5/100",
      "Matching Score: 8:2/100",
      "Summary: foo bar",
      "Suggested Edits:",
      " - Add Python",
      "plain text",
      "Summary: Suggested Edits:",
      "Matching Score: 7/10 Summary: x",
      "matching score: 90/100" }

\* the example responses of the specification's testable properties
ExampleEdits ==
    "Suggested Edits:\n- Add Python experience\n- Quantify achievements\nSummary: wrap-up"

ExampleSummaryOnly == "Summary: foo bar"

\* the edits example followed by one more '-' line
ExampleEditsThenDash == ExampleEdits \o "\n- Late bullet"

\* a response with every marker twice
ExampleDuplicated ==
    "Matching Score: 82/100\nSummary: first\nmore\nSuggested Edits:\n- First\nMatching Score: N/A\nSummary: second\nSuggested Edits:\n- Second"

ExampleTexts ==
    {"", ExampleEdits, ExampleSummaryOnly, ExampleEditsThenDash, ExampleDuplicated}

PoolTexts ==
    { Join(ls, "\n") : ls \in UNION { [1..n -> LinePool] : n \in 1..MaxLines } }

ResponseTexts == PoolTexts \cup ExampleTexts

-----------------------------------------------------------------------------
(* get_matching_score_summary_and_edits as a process *)

\* main.py:82-92: the model answers, the text is split into lines
LLMInvoke ==
    /\ pc = "start"
    /\ \E text \in ResponseTexts :
           /\ response_text' = text
           /\ lines' = SplitLines(text)
    /\ idx' = 0
    /\ score' = InitialLoopState.score
    /\ summary' = InitialLoopState.summary
    /\ suggested_edits' = InitialLoopState.suggested_edits
    /\ current_section' = InitialLoopState.current_section
    /\ pc' = "loop"
    /\ UNCHANGED <<result, uiVars, ragVars>>

\* main.py:82: llm.invoke raises (service failure); nothing is parsed
LLMFail ==
    /\ pc = "start"
    /\ pc' = "llm_error"
    /\ UNCHANGED <<response_text, lines, idx, score, summary,
                   suggested_edits, current_section, result, uiVars, ragVars>>

\* main.py:93-109: one iteration of the for loop
LoopStep ==
    /\ pc = "loop"
    /\ idx < Len(lines)
    /\ \E st \in {ProcessLine([score |-> score, summary |-> summary,
                                suggested_edits |-> suggested_edits,
                                current_section |-> current_section,
                                exc |-> "none"], lines[idx + 1])} :
           /\ score' = st.score
           /\ summary' = st.summary
           /\ suggested_edits' = st.suggested_edits
           /\ current_section' = st.current_section
           /\ pc' = IF st.exc = "none" THEN "loop" ELSE "raised"
    /\ idx' = idx + 1
    /\ UNCHANGED <<response_text, lines, result, uiVars, ragVars>>

\* main.py:111
Return ==
    /\ pc = "loop"
    /\ idx = Len(lines)
    /\ result' = [matching_score |-> score, summary |-> summary,
                  suggested_edits |-> suggested_edits]
    /\ pc' = "returned"
    /\ UNCHANGED <<response_text, lines, idx, score, summary,
                   suggested_edits, current_section, uiVars, ragVars>>

\* the function has been entered, main.py:54-80
ParserStart ==
    /\ pc = "start"
    /\ response_text = ""
    /\ lines = <<>>
    /\ idx = 0
    /\ score = None
    /\ summary = ""
    /\ suggested_edits = <<>>
    /\ current_section = NoSection
    /\ result = None

-----------------------------------------------------------------------------
(* get_matching_score_summary_and_edits as one call, main.py:54-111 *)

RECURSIVE ParseLines(_, _)
\* the for loop over all lines, main.py:93-109; an exception ends it
ParseLines(st, ls) ==
    IF ls = <<>> \/ st.exc # "none" THEN st
    ELSE ParseLines(ProcessLine(st, Head(ls)), Tail(ls))

\* the return statement on the loop's final state, main.py:111
Returned(st) ==
    [exc |-> st.exc,
     value |-> [matching_score |-> st.score, summary |-> st.summary,
                suggested_edits |-> st.suggested_edits]]

\* main.py:84-111 on a response text: [exc, value]
ParseResponse(text) == Returned(ParseLines(InitialLoopState, SplitLines(text)))

\* main.py:82 raises what the client raises; otherwise the text is parsed
GetMatchingScoreSummaryAndEdits(llm) ==
    IF llm.exc # "none" THEN [exc |-> llm.exc, value |-> None]
    ELSE ParseResponse(llm.text)

-----------------------------------------------------------------------------
(* load_document and extract_text_from_documents, main.py:14-26 *)

\* str.endswith
EndsWith(s, suffix) ==
    /\ Len(s) >= Len(suffix)
    /\ SubSeq(s, Len(s) - Len(suffix) + 1, Len(s)) = suffix

UnsupportedFileType == "Unsupported file type"

LoaderFailure == "Cannot read file"

\* variant: a path of another kind is read as plain text
LoadDocument_FallbackToText(file_path, file) ==
    IF file.readable
    THEN [exc |-> "none", documents |-> file.pages]
    ELSE [exc |-> LoaderFailure, documents |-> <<>>]

\* main.py:14-23; the loaders read the file: [exc, documents]
LoadDocument(file_path, file) ==
    IF EndsWith(file_path, ".pdf") \/ EndsWith(file_path, ".docx")
       \/ EndsWith(file_path, ".txt")
    THEN IF file.readable
         THEN [exc |-> "none", documents |-> file.pages]
         ELSE [exc |-> LoaderFailure, documents |-> <<>>]
    ELSE [exc |-> UnsupportedFileType, documents |-> <<>>]

\* main.py:25-26
ExtractTextFromDocuments(documents) == Join(documents, "\n")

-----------------------------------------------------------------------------
(* The Streamlit script, streamlit_app.py:46-213 *)

MethodPaste == "Paste Text"

MethodUrl == "URL"

\* uploaded_file is None, streamlit_app.py:78
NoFile == [name |-> "", pages |-> <<>>, readable |-> FALSE]

\* s[:n]
Prefix(s, n) == IF Len(s) > n THEN SubSeq(s, 1, n) ELSE s

\* response.text[:5000], streamlit_app.py:122
FetchLimit == 5000

\* jd_text[:500], streamlit_app.py:124
JdPreviewLimit == 500

\* resume_text[:1000], streamlit_app.py:93
ResumePreviewLimit == 1000

\* s[:n] + "..." if len(s) > n else s
Preview(s, n) == IF Len(s) > n THEN Prefix(s, n) \o "..." ELSE s

Msg(kind, text) == [kind |-> kind, text |-> text]

\* suffix=f".{uploaded_file.name.split('.')[-1]}", streamlit_app.py:80
TmpFilePath(name) ==
    LET pieces == Split(name, ".")
    IN  "/tmp/tmp" \o "." \o pieces[Len(pieces)]

\* truthiness of results["matching_score"], streamlit_app.py:165
Truthy(matching_score) == matching_score # None /\ matching_score[1] # 0

\* streamlit_app.py:162-170
ScoreShown(matching_score) ==
    IF Truthy(matching_score)
    THEN LET n == matching_score[1]
         IN  [text |-> ToString(n) \o "/100",
              color |-> IF n >= 70 THEN "green"
                        ELSE IF n >= 50 THEN "orange" ELSE "red"]
    ELSE [text |-> "N/A", color |-> "gray"]

\* streamlit_app.py:193-200
InsightShown(matching_score) ==
    IF Truthy(matching_score) /\ matching_score[1] >= 70
    THEN Msg("success", "Strong match! Your resume aligns well with the job requirements.")
    ELSE IF Truthy(matching_score) /\ matching_score[1] >= 50
    THEN Msg("warning", "Good potential! Some improvements could strengthen your application.")
    ELSE Msg("error", "Significant gaps identified. Consider major revisions to better match the role.")

\* streamlit_app.py:157-209: what is rendered for a result
ResultsShown(r) ==
    << Msg("success", "Analysis complete!"),
       [kind |-> "score", text |-> ScoreShown(r.matching_score).text,
        color |-> ScoreShown(r.matching_score).color],
       IF r.summary # "" THEN Msg("summary", r.summary)
       ELSE Msg("info", "No summary available"),
       IF r.suggested_edits # <<>> THEN [kind |-> "edits", items |-> r.suggested_edits]
       ELSE Msg("info", "No specific edits suggested"),
       InsightShown(r.matching_score) >>

\* variant: the job description is not checked
AnalyzeGate_NoJdCheck(resume, jd, key) ==
    IF resume = "" THEN "Please upload a resume first!"
    ELSE IF key = "" THEN "Please provide your Groq API key in the sidebar!"
    ELSE "run"

\* the three checks of streamlit_app.py:138-148: the error shown, or "run"
AnalyzeGate(resume, jd, key) ==
    IF resume = "" THEN "Please upload a resume first!"
    ELSE IF jd = "" THEN "Please provide a job description!"
    ELSE IF key = "" THEN "Please provide your Groq API key in the sidebar!"
    ELSE "run"

(* Inputs of the script *)

ApiKeys == {"", "gsk-1"}

Files ==
    { [name |-> "cv.pdf", pages |-> <<"5 years backend engineering", "led API redesign">>,
       readable |-> TRUE],
      [name |-> "cv.txt", pages |-> <<"">>, readable |-> TRUE],
      [name |-> "cv.docx", pages |-> <<>>, readable |-> FALSE],
      [name |-> "cv.PDF", pages |-> <<"5 years backend engineering">>, readable |-> TRUE] }

JobDescriptions == {"", "Seeking backend engineer with API design experience"}

Urls == {"", "https://example.com/job-posting"}

\* what requests.get does, streamlit_app.py:120
HttpOutcomes ==
    { [exc |-> "Connection timed out", status_code |-> 0, text |-> ""],
      [exc |-> "none", status_code |-> 200, text |-> "Backend engineer wanted"],
      [exc |-> "none", status_code |-> 200, text |-> ""],
      [exc |-> "none", status_code |-> 404, text |-> "Not Found"] }

\* what llm.invoke does, main.py:82
LlmOutcomes ==
    { [exc |-> "Invalid API Key", text |-> ""],
      [exc |-> "none", text |-> "Matching Score: 82/100\nSummary: Strong backend profile\nSuggested Edits:\n- Add API design keywords"],
      [exc |-> "none", text |-> "Matching Score: 55/100\nSummary: Partial match"],
      [exc |-> "none", text |-> "Matching Score: 0/100\nSummary: No overlap"],
      [exc |-> "none", text |-> "I cannot assess this resume."] }

\* the locals and the output of a run before its first statement
StartRun(button) ==
    /\ ui_pc = "idle"
    /\ ui_pc' = "sidebar"
    /\ clicked' = button
    /\ page_jd' = jd_text
    /\ resume_text' = ""
    /\ jd_text' = ""
    /\ messages' = <<>>
    /\ analysis_calls' = <<>>
    /\ results' = None
    /\ UNCHANGED <<env_key, tmp_files, parserVars, ragVars>>

(* User events: each one starts a run of the script *)

EditApiKey ==
    /\ \E k \in ApiKeys : k # groq_api_key /\ groq_api_key' = k
    /\ StartRun("none")
    /\ UNCHANGED <<uploaded_file, input_method, jd_area, url>>

UploadFile ==
    /\ \E f \in Files \cup {NoFile} : f # uploaded_file /\ uploaded_file' = f
    /\ StartRun("none")
    /\ UNCHANGED <<groq_api_key, input_method, jd_area, url>>

ChooseInputMethod ==
    /\ \E m \in {MethodPaste, MethodUrl} : m # input_method /\ input_method' = m
    /\ StartRun("none")
    /\ UNCHANGED <<groq_api_key, uploaded_file, jd_area, url>>

\* the text area exists only with the "Paste Text" method, streamlit_app.py:109
EditJobDescription ==
    /\ input_method = MethodPaste
    /\ \E t \in JobDescriptions : t # jd_area /\ jd_area' = t
    /\ StartRun("none")
    /\ UNCHANGED <<groq_api_key, uploaded_file, input_method, url>>

\* the URL input exists only with the "URL" method, streamlit_app.py:116
EditUrl ==
    /\ input_method = MethodUrl
    /\ \E u \in Urls : u # url /\ url' = u
    /\ StartRun("none")
    /\ UNCHANGED <<groq_api_key, uploaded_file, input_method, jd_area>>

\* the button exists only when a URL is entered, streamlit_app.py:117
ClickFetch ==
    /\ input_method = MethodUrl
    /\ url # ""
    /\ StartRun("fetch")
    /\ UNCHANGED <<groq_api_key, uploaded_file, input_method, jd_area, url>>

\* streamlit_app.py:137
ClickAnalyze ==
    /\ StartRun("analyze")
    /\ UNCHANGED <<groq_api_key, uploaded_file, input_method, jd_area, url>>

(* The steps of one run *)

\* streamlit_app.py:51-55
Sidebar ==
    /\ ui_pc = "sidebar"
    /\ env_key' = IF groq_api_key # "" THEN groq_api_key ELSE env_key
    /\ ui_pc' = "resume"
    /\ UNCHANGED <<clicked, groq_api_key, uploaded_file, input_method, jd_area,
                   url, tmp_files, resume_text, jd_text, messages,
                   analysis_calls, results, page_jd, parserVars, ragVars>>

\* streamlit_app.py:77-82: the upload is written to a temporary file
SaveUpload ==
    /\ ui_pc = "resume"
    /\ tmp_files' = IF uploaded_file # NoFile
                    THEN tmp_files \cup {TmpFilePath(uploaded_file.name)}
                    ELSE tmp_files
    /\ ui_pc' = IF uploaded_file # NoFile THEN "load" ELSE "jd"
    /\ UNCHANGED <<clicked, groq_api_key, env_key, uploaded_file, input_method,
                   jd_area, url, resume_text, jd_text, messages,
                   analysis_calls, results, page_jd, parserVars, ragVars>>

\* variant: the file is removed only when the resume was loaded
Unlink_OnlyAfterSuccess(files, path, exc) ==
    IF exc = "none" THEN files \ {path} ELSE files

\* the finally clause, streamlit_app.py:97-100: os.unlink(tmp_file_path)
\* whatever the outcome exc of the try statement
Unlink(files, path, exc) == files \ {path}

\* streamlit_app.py:84-100: try / except / finally
LoadResume ==
    /\ ui_pc = "load"
    /\ LET tmp_file_path == TmpFilePath(uploaded_file.name)
           loaded == LoadDocument(tmp_file_path, uploaded_file)
           text == ExtractTextFromDocuments(loaded.documents)
       IN  /\ IF loaded.exc = "none"
              THEN /\ resume_text' = text
                   /\ messages' = messages \o
                        << Msg("success", "Resume loaded successfully! ("
                                 \o ToString(Len(text)) \o " characters)"),
                           Msg("text_area", Preview(text, ResumePreviewLimit)) >>
              ELSE /\ resume_text' = resume_text
                   /\ messages' = Append(messages,
                        Msg("error", "Error loading resume: " \o loaded.exc))
           /\ tmp_files' = Unlink(tmp_files, tmp_file_path, loaded.exc)
    /\ ui_pc' = "jd"
    /\ UNCHANGED <<clicked, groq_api_key, env_key, uploaded_file, input_method,
                   jd_area, url, jd_text, analysis_calls, results, page_jd,
                   parserVars, ragVars>>

\* streamlit_app.py:108-114 and 130-131
JobDescriptionPasted ==
    /\ ui_pc = "jd"
    /\ input_method = MethodPaste
    /\ jd_text' = jd_area
    /\ messages' = IF jd_area # ""
                   THEN Append(messages,
                          Msg("success", "Job description entered! ("
                                \o ToString(Len(jd_area)) \o " characters)"))
                   ELSE messages
    /\ ui_pc' = "analysis"
    /\ UNCHANGED <<clicked, groq_api_key, env_key, uploaded_file, input_method,
                   jd_area, url, tmp_files, resume_text, analysis_calls,
                   results, page_jd, parserVars, ragVars>>

\* streamlit_app.py:115-128
JobDescriptionByUrl ==
    /\ ui_pc = "jd"
    /\ input_method = MethodUrl
    /\ IF url # "" /\ clicked = "fetch"
       THEN \E response \in HttpOutcomes :
              IF response.exc # "none"
              THEN /\ jd_text' = jd_text
                   /\ messages' = Append(messages,
                        Msg("error", "Error fetching URL: " \o response.exc))
              ELSE IF response.status_code = 200
              THEN /\ jd_text' = Prefix(response.text, FetchLimit)
                   /\ messages' = messages \o
                        << Msg("success", "Job description fetched successfully!"),
                           Msg("text_area",
                               Preview(Prefix(response.text, FetchLimit),
                                       JdPreviewLimit)) >>
              ELSE /\ jd_text' = jd_text
                   /\ messages' = Append(messages,
                        Msg("error", "Failed to fetch URL. Status code: "
                              \o ToString(response.status_code)))
       ELSE UNCHANGED <<jd_text, messages>>
    /\ ui_pc' = "analysis"
    /\ UNCHANGED <<clicked, groq_api_key, env_key, uploaded_file, input_method,
                   jd_area, url, tmp_files, resume_text, analysis_calls,
                   results, page_jd, parserVars, ragVars>>

\* streamlit_app.py:137: the button was not clicked, the run ends
NoAnalysis ==
    /\ ui_pc = "analysis"
    /\ clicked # "analyze"
    /\ ui_pc' = "idle"
    /\ UNCHANGED <<clicked, groq_api_key, env_key, uploaded_file, input_method,
                   jd_area, url, tmp_files, resume_text, jd_text, messages,
                   analysis_calls, results, page_jd, parserVars, ragVars>>

\* streamlit_app.py:138-148: one of the three checks fails
AnalysisRefused ==
    /\ ui_pc = "analysis"
    /\ clicked = "analyze"
    /\ AnalyzeGate(resume_text, jd_text, env_key) # "run"
    /\ messages' = Append(messages,
                     Msg("error", AnalyzeGate(resume_text, jd_text, env_key)))
    /\ ui_pc' = "idle"
    /\ UNCHANGED <<clicked, groq_api_key, env_key, uploaded_file, input_method,
                   jd_area, url, tmp_files, resume_text, jd_text,
                   analysis_calls, results, page_jd, parserVars, ragVars>>

\* streamlit_app.py:151-213: the analysis runs and its result is rendered
Analyze ==
    /\ ui_pc = "analysis"
    /\ clicked = "analyze"
    /\ AnalyzeGate(resume_text, jd_text, env_key) = "run"
    /\ analysis_calls' = <<[resume_text |-> resume_text, jd_text |-> jd_text]>>
    /\ \E llm \in LlmOutcomes :
         \E outcome \in {GetMatchingScoreSummaryAndEdits(llm)} :
             IF outcome.exc = "none"
             THEN /\ results' = Some(outcome.value)
                  /\ messages' = messages \o ResultsShown(outcome.value)
             ELSE /\ results' = results
                  /\ messages' = messages \o
                       << Msg("error", "Error during analysis: " \o outcome.exc),
                          Msg("info", "Please check your API key and try again.") >>
    /\ ui_pc' = "idle"
    /\ UNCHANGED <<clicked, groq_api_key, env_key, uploaded_file, input_method,
                   jd_area, url, tmp_files, resume_text, jd_text, page_jd,
                   parserVars, ragVars>>

\* the script is not running and nothing has been entered
UIQuiet ==
    /\ ui_pc = "idle"
    /\ clicked = "none"
    /\ groq_api_key = ""
    /\ env_key = ""
    /\ uploaded_file = NoFile
    /\ input_method = MethodPaste
    /\ jd_area = ""
    /\ url = ""
    /\ tmp_files = {}
    /\ resume_text = ""
    /\ jd_text = ""
    /\ messages = <<>>
    /\ analysis_calls = <<>>
    /\ results = None
    /\ page_jd = ""

-----------------------------------------------------------------------------
(* get_rag_chain, main.py:34-52 *)

\* chunk_size=1000, main.py:35
ChunkSize == 1000

\* chunk_overlap=200, main.py:35
ChunkOverlap == 200

\* a langchain Document
Document(text) == [page_content |-> text]

\* the non-empty contiguous pieces of a text
Pieces(text) ==
    { SubSeq(text, r[1], r[2]) :
        r \in { q \in (1..Len(text)) \X (1..Len(text)) : q[1] <= q[2] } }

\* text_splitter.create_documents([text]), main.py:36-37.  The splitter is
\* library code: any list of at most MaxChunks pieces of the text, none
\* longer than the chunk size, may be its result.
CreateDocuments(splitter, text) ==
    LET pieces == { p \in Pieces(text) : Len(p) <= splitter.chunk_size }
    IN  UNION { [1..n -> { Document(p) : p \in pieces }] : n \in 0..MaxChunks }

\* the vector the embedding model gives a text; the same text, the same vector
Embed(model, text) == <<model.model_name, text>>

\* variant: the job description chunks come first
DocumentsToIndex_JdFirst(resume_chunks, jd_chunks) == jd_chunks \o resume_chunks

\* resume_docs + jd_docs, main.py:41
DocumentsToIndex(resume_chunks, jd_chunks) == resume_chunks \o jd_chunks

\* FAISS.from_documents(docs, embeddings): one entry per document, in order
FromDocuments(docs, model) ==
    [i \in 1..Len(docs) |->
        [document |-> docs[i], vector |-> Embed(model, docs[i].page_content)]]

RagContents == {"", "abc", "xy"}

\* what the embedding model may raise
EmbedderErrors == {"OSError", "RuntimeError"}

\* variant: the failure is swallowed and the assembly goes on with the
\* index as it is
EmbedFailure_Swallowed(exc, store) ==
    [rag_pc |-> "indexed", rag_exc |-> "", vectorstore |-> store]

\* an exception of the embedding model inside get_rag_chain, main.py:39-41:
\* there is no try statement, the exception leaves the function unchanged
\* and vectorstore is not assigned
EmbedFailure(exc, store) ==
    [rag_pc |-> "raised", rag_exc |-> exc, vectorstore |-> store]

\* main.py:35
RagSplitter ==
    /\ rag_pc = "start"
    /\ text_splitter' = [chunk_size |-> ChunkSize, chunk_overlap |-> ChunkOverlap]
    /\ rag_pc' = "split_resume"
    /\ UNCHANGED <<resume_content, jd_content, split_calls, resume_docs,
                   jd_docs, embeddings, vectorstore, qa_chain, embed_error, rag_exc,
                   parserVars, uiVars>>

\* main.py:36
RagSplitResume ==
    /\ rag_pc = "split_resume"
    /\ \E docs \in CreateDocuments(text_splitter, resume_content) :
         resume_docs' = docs
    /\ split_calls' = Append(split_calls,
                        [text |-> resume_content,
                         chunk_size |-> text_splitter.chunk_size,
                         chunk_overlap |-> text_splitter.chunk_overlap])
    /\ rag_pc' = "split_jd"
    /\ UNCHANGED <<resume_content, jd_content, text_splitter, jd_docs,
                   embeddings, vectorstore, qa_chain, embed_error, rag_exc,
                   parserVars, uiVars>>

\* main.py:37
RagSplitJd ==
    /\ rag_pc = "split_jd"
    /\ \E docs \in CreateDocuments(text_splitter, jd_content) :
         jd_docs' = docs
    /\ split_calls' = Append(split_calls,
                        [text |-> jd_content,
                         chunk_size |-> text_splitter.chunk_size,
                         chunk_overlap |-> text_splitter.chunk_overlap])
    /\ rag_pc' = "embeddings"
    /\ UNCHANGED <<resume_content, jd_content, text_splitter, resume_docs,
                   embeddings, vectorstore, qa_chain, embed_error, rag_exc,
                   parserVars, uiVars>>

\* main.py:39 and 28-32
RagEmbeddings ==
    /\ rag_pc = "embeddings"
    /\ embeddings' = [model_name |-> "sentence-transformers/all-MiniLM-L6-v2",
                      device |-> "cpu", normalize_embeddings |-> FALSE]
    /\ rag_pc' = "index"
    /\ UNCHANGED <<resume_content, jd_content, text_splitter, split_calls,
                   resume_docs, jd_docs, vectorstore, qa_chain, embed_error, rag_exc,
                   parserVars, uiVars>>

\* main.py:39: the embedding model cannot be loaded; nothing in
\* get_rag_chain catches the exception
RagEmbeddingsFail ==
    /\ rag_pc = "embeddings"
    /\ \E exc \in EmbedderErrors :
         /\ embed_error' = exc
         /\ \E out \in {EmbedFailure(exc, vectorstore)} :
              /\ rag_pc' = out.rag_pc
              /\ rag_exc' = out.rag_exc
              /\ vectorstore' = out.vectorstore
    /\ UNCHANGED <<resume_content, jd_content, text_splitter, split_calls,
                   resume_docs, jd_docs, embeddings, qa_chain,
                   parserVars, uiVars>>

\* main.py:41: every chunk is embedded and put into one index
RagIndex ==
    /\ rag_pc = "index"
    /\ DocumentsToIndex(resume_docs, jd_docs) # <<>>
    /\ vectorstore' = FromDocuments(DocumentsToIndex(resume_docs, jd_docs),
                                    embeddings)
    /\ rag_pc' = "indexed"
    /\ UNCHANGED <<resume_content, jd_content, text_splitter, split_calls,
                   resume_docs, jd_docs, embeddings, qa_chain, embed_error, rag_exc,
                   parserVars, uiVars>>

\* main.py:41: embedding the chunks fails; nothing in get_rag_chain catches
\* the exception
RagIndexFail ==
    /\ rag_pc = "index"
    /\ DocumentsToIndex(resume_docs, jd_docs) # <<>>
    /\ \E exc \in EmbedderErrors :
         /\ embed_error' = exc
         /\ \E out \in {EmbedFailure(exc, vectorstore)} :
              /\ rag_pc' = out.rag_pc
              /\ rag_exc' = out.rag_exc
              /\ vectorstore' = out.vectorstore
    /\ UNCHANGED <<resume_content, jd_content, text_splitter, split_calls,
                   resume_docs, jd_docs, embeddings, qa_chain,
                   parserVars, uiVars>>

\* main.py:41: there is no chunk to take the index dimension from; the
\* library's IndexError leaves get_rag_chain
RagIndexEmpty ==
    /\ rag_pc = "index"
    /\ DocumentsToIndex(resume_docs, jd_docs) = <<>>
    /\ rag_pc' = "raised"
    /\ rag_exc' = "IndexError"
    /\ UNCHANGED <<resume_content, jd_content, text_splitter, split_calls,
                   resume_docs, jd_docs, embeddings, vectorstore, qa_chain,
                   embed_error, parserVars, uiVars>>

\* main.py:42-52
RagChain ==
    /\ rag_pc = "indexed"
    /\ qa_chain' = [retriever |-> vectorstore, chain_type |-> "stuff",
                    return_source_documents |-> TRUE]
    /\ rag_pc' = "returned"
    /\ UNCHANGED <<resume_content, jd_content, text_splitter, split_calls,
                   resume_docs, jd_docs, embeddings, vectorstore, embed_error, rag_exc,
                   parserVars, uiVars>>

\* get_rag_chain has not been called
RagQuiet ==
    /\ rag_pc = "idle"
    /\ resume_content = ""
    /\ jd_content = ""
    /\ text_splitter = None
    /\ split_calls = <<>>
    /\ resume_docs = <<>>
    /\ jd_docs = <<>>
    /\ embeddings = None
    /\ vectorstore = <<>>
    /\ qa_chain = None
    /\ embed_error = ""
    /\ rag_exc = ""

\* get_rag_chain(resume_content, jd_content) is entered, main.py:34
InitRag ==
    /\ rag_pc = "start"
    /\ resume_content \in RagContents
    /\ jd_content \in RagContents
    /\ text_splitter = None
    /\ split_calls = <<>>
    /\ resume_docs = <<>>
    /\ jd_docs = <<>>
    /\ embeddings = None
    /\ vectorstore = <<>>
    /\ qa_chain = None
    /\ embed_error = ""
    /\ rag_exc = ""
    /\ ParserStart
    /\ UIQuiet

NextRag ==
    \/ RagSplitter
    \/ RagSplitResume
    \/ RagSplitJd
    \/ RagEmbeddings
    \/ RagEmbeddingsFail
    \/ RagIndex
    \/ RagIndexFail
    \/ RagIndexEmpty
    \/ RagChain

SpecRag == InitRag /\ [][NextRag]_vars

-----------------------------------------------------------------------------
(* The specifications *)

\* the first run of a new session: GROQ_API_KEY may come from the
\* environment (load_dotenv, main.py:12) and is the default of the input
InitUI ==
    /\ ui_pc = "sidebar"
    /\ clicked = "none"
    /\ env_key \in ApiKeys
    /\ groq_api_key = env_key
    /\ uploaded_file = NoFile
    /\ input_method = MethodPaste
    /\ jd_area = ""
    /\ url = ""
    /\ tmp_files = {}
    /\ resume_text = ""
    /\ jd_text = ""
    /\ messages = <<>>
    /\ analysis_calls = <<>>
    /\ results = None
    /\ page_jd = ""
    /\ ParserStart
    /\ RagQuiet

UserEvent ==
    \/ EditApiKey
    \/ UploadFile
    \/ ChooseInputMethod
    \/ EditJobDescription
    \/ EditUrl
    \/ ClickFetch
    \/ ClickAnalyze

ScriptStep ==
    \/ Sidebar
    \/ SaveUpload
    \/ LoadResume
    \/ JobDescriptionPasted
    \/ JobDescriptionByUrl
    \/ NoAnalysis
    \/ AnalysisRefused
    \/ Analyze

NextUI == UserEvent \/ ScriptStep

SpecUI == InitUI /\ [][NextUI]_vars

Init == ParserStart /\ UIQuiet /\ RagQuiet

Next == LLMInvoke \/ LLMFail \/ LoopStep \/ Return

Spec == Init /\ [][Next]_vars

-----------------------------------------------------------------------------
(* Properties of the response parser *)

Parsing == pc \in {"loop", "returned"}

\* the line the loop has just processed
LastLine == lines[idx]

IsMarkerLine(l) ==
    Contains(l, ScoreMarker) \/ Contains(l, SummaryMarker) \/ Contains(l, EditsMarker)

\* a marker line that carries the score marker or the summary marker
IsScoreOrSummaryLine(l) ==
    Contains(l, ScoreMarker) \/ Contains(l, SummaryMarker)

\* a marker line whose only marker is 'Suggested Edits:'
IsEditsLine(l) == Contains(l, EditsMarker) /\ ~IsScoreOrSummaryLine(l)

ResultFields == {"matching_score", "summary", "suggested_edits"}

IsInteger(s) == PyInt(s).exc = "none"

IsDigits(s) == s # "" /\ \A i \in 1..Len(s) : Char(s, i) \in Digits

\* C1: the line loop never raises, never runs past the last line, and
\* returns a result with the three fields; the empty response gives an
\* absent score, an empty summary and no edits.
C1_ParserTotal ==
    /\ pc # "raised"
    /\ Parsing => idx <= Len(lines)
    /\ pc = "returned" =>
          /\ DOMAIN result = ResultFields
          /\ response_text = "" =>
                result = [matching_score |-> None, summary |-> "",
                          suggested_edits |-> <<>>]

C1_Witness == pc = "returned" /\ response_text = ""

\* indices j <= n of the '-' lines that follow an edits marker line with
\* no marker line in between
EditSources(n) ==
    { j \in 1..n :
        /\ ~IsMarkerLine(lines[j])
        /\ StartsWith(Strip(lines[j]), "-")
        /\ \E k \in 1..(j - 1) :
              /\ IsEditsLine(lines[k])
              /\ \A m \in (k + 1)..(j - 1) : ~IsMarkerLine(lines[m]) }

RECURSIVE Ascending(_)
\* the elements of a set of numbers in increasing order
Ascending(S) ==
    IF S = {} THEN <<>>
    ELSE LET least == CHOOSE x \in S : \A y \in S : x <= y
         IN  <<least>> \o Ascending(S \ {least})

\* C2: after any number of processed lines, suggested_edits is the
\* trimmed text of the non-marker '-' lines that were read in the edits
\* section, in the order the lines were met.
C2_EditsAreDashLinesOfEditsSection ==
    Parsing =>
        LET src == Ascending(EditSources(idx))
        IN  suggested_edits = [i \in 1..Len(src) |-> Strip(lines[src[i]])]

C2_Witness ==
    /\ pc = "returned"
    /\ Len(suggested_edits) = 2
    /\ \E j \in 1..Len(lines) : IsScoreOrSummaryLine(lines[j])

\* the score that a score text gives: value before the slash
ScoreTextOutcomeHolds(text) ==
    LET t == Strip(text)
        slash == Find(t, "/")
        before == SubSeq(t, 1, slash - 1)
    IN  slash # 0 =>
          /\ IsDigits(before) => score = Some(DecimalValue(before, 0))
          /\ ~IsInteger(before) => score = None

\* C3 as stated: on a score marker line the text after the first colon,
\* when it is digits/anything, gives the integer before the slash, and
\* when the text before the slash is non-numeric the score is absent; the
\* loop goes on.
C3_AsStated ==
    (Parsing /\ idx >= 1 /\ Contains(LastLine, ScoreMarker)) =>
        ScoreTextOutcomeHolds(Split1(LastLine, ":")[2])

\* C3: the same, for the text between the first colon and the next colon
\* (or the end of the line).
C3_ScoreBeforeSlash ==
    /\ pc # "raised"
    /\ (Parsing /\ idx >= 1 /\ Contains(LastLine, ScoreMarker)) =>
          ScoreTextOutcomeHolds(Split(LastLine, ":")[2])

C3_Witness ==
    /\ pc = "loop"
    /\ idx >= 1
    /\ idx < Len(lines)
    /\ LastLine = "Matching Score: 82/100"
    /\ score = Some(82)

\* C4 as stated: a score marker line whose text after the first colon has
\* no slash gives an absent score.
C4_AsStated ==
    (Parsing /\ idx >= 1 /\ Contains(LastLine, ScoreMarker)
       /\ Find(Split1(LastLine, ":")[2], "/") = 0) =>
        score = None

\* C4: a score marker line whose text after the first colon has no slash
\* and no further colon gives the integer value of that text when the text
\* is an integer, and an absent score otherwise.
C4_NoSlashParsesWholeText ==
    (Parsing /\ idx >= 1 /\ Contains(LastLine, ScoreMarker)) =>
        LET text == Split1(LastLine, ":")[2]
        IN  (Find(text, "/") = 0 /\ Find(text, ":") = 0) =>
              IF IsInteger(text) THEN score = Some(PyInt(text).val)
              ELSE score = None

C4_Witness ==
    /\ Parsing
    /\ idx >= 1
    /\ LastLine = "Matching Score: 82"
    /\ score = Some(82)

\* C5 as stated: the returned matching_score is absent or an integer
\* between 0 and 100.
C5_ScoreInRange ==
    pc = "returned" =>
        \/ result.matching_score = None
        \/ /\ result.matching_score[1] >= 0
           /\ result.matching_score[1] <= 100

\* the last marker line before line j is a score or summary marker line
InScoreOrSummarySection(j) ==
    \E k \in 1..(j - 1) :
        /\ IsScoreOrSummaryLine(lines[k])
        /\ \A m \in (k + 1)..(j - 1) : ~IsMarkerLine(lines[m])

\* C6: a line that is read after a Summary or Matching Score marker line,
\* with no later marker line before it, is never appended to
\* suggested_edits; the edits example of the specification gives exactly
\* its two '-' lines.
C6_EditsStopAtNextMarker ==
    /\ [][(pc = "loop" /\ idx < Len(lines) /\ InScoreOrSummarySection(idx + 1)
            /\ ~IsEditsLine(lines[idx + 1]))
           => suggested_edits' = suggested_edits]_vars
    /\ []((pc = "returned" /\ response_text \in {ExampleEdits, ExampleEditsThenDash})
           => result.suggested_edits =
                <<"- Add Python experience", "- Quantify achievements">>)

C6_Witness ==
    /\ pc = "returned"
    /\ response_text = ExampleEditsThenDash
    /\ Len(result.suggested_edits) = 2

NoLineHas(marker) == \A j \in 1..Len(lines) : ~Contains(lines[j], marker)

\* C7: a response without a score marker line gives an absent score, one
\* without a summary marker line an empty summary, one without an edits
\* marker line no edits; 'Summary: foo bar' alone gives an absent score,
\* the summary 'foo bar' and no edits.
C7_FieldsDegradeIndependently ==
    pc = "returned" =>
        /\ NoLineHas(ScoreMarker) => result.matching_score = None
        /\ NoLineHas(SummaryMarker) => result.summary = ""
        /\ NoLineHas(EditsMarker) => result.suggested_edits = <<>>
        /\ response_text = ExampleSummaryOnly =>
              result = [matching_score |-> None, summary |-> "foo bar",
                        suggested_edits |-> <<>>]

C7_Witness ==
    /\ pc = "returned"
    /\ response_text = ExampleSummaryOnly
    /\ result.summary = "foo bar"

-----------------------------------------------------------------------------
(* Properties of the Streamlit script *)

RunEnded == ui_pc = "idle"

\* C8: the analysis is called only in a run started by the Analyze button
\* in which the resume text, the job description text and the API key of
\* the environment are all non-empty, and with those two texts; an Analyze
\* run in which one of them is empty ends with an error message and
\* without a call.
C8_AnalysisOnlyWithBothTexts ==
    /\ analysis_calls # <<>> =>
          /\ clicked = "analyze"
          /\ resume_text # ""
          /\ jd_text # ""
          /\ env_key # ""
          /\ analysis_calls = <<[resume_text |-> resume_text, jd_text |-> jd_text]>>
    /\ (RunEnded /\ clicked = "analyze"
          /\ (resume_text = "" \/ jd_text = "" \/ env_key = "")) =>
          /\ analysis_calls = <<>>
          /\ results = None
          /\ messages # <<>>
          /\ messages[Len(messages)].kind = "error"

C8_Witness ==
    /\ RunEnded
    /\ clicked = "analyze"
    /\ analysis_calls # <<>>
    /\ results # None

\* C9 as stated: when the page the user clicked Analyze on showed a job
\* description fetched by URL, and the resume and the API key are there,
\* the run calls the analysis with the fetched text.
C9_UrlJobDescriptionIsAnalysed ==
    (RunEnded /\ clicked = "analyze" /\ input_method = MethodUrl
       /\ page_jd # "" /\ resume_text # "" /\ env_key # "") =>
        analysis_calls = <<[resume_text |-> resume_text, jd_text |-> page_jd]>>

-----------------------------------------------------------------------------
(* Properties of get_rag_chain *)

SplitCall(text) ==
    [text |-> text, chunk_size |-> ChunkSize, chunk_overlap |-> ChunkOverlap]

\* C10: both texts are split on their own with the same chunk size and
\* overlap, and the one index holds every resume chunk, in the order of
\* the resume's chunks, followed by every job description chunk, in the
\* order of the job description's chunks.
C10_ResumeChunksThenJdChunks ==
    /\ rag_pc \in {"embeddings", "index", "indexed", "returned"} =>
          split_calls = <<SplitCall(resume_content), SplitCall(jd_content)>>
    /\ rag_pc \in {"indexed", "returned"} =>
          /\ Len(vectorstore) = Len(resume_docs) + Len(jd_docs)
          /\ \A i \in 1..Len(resume_docs) :
                vectorstore[i].document = resume_docs[i]
          /\ \A j \in 1..Len(jd_docs) :
                vectorstore[Len(resume_docs) + j].document = jd_docs[j]

C10_Witness ==
    /\ rag_pc = "returned"
    /\ Len(resume_docs) = 2
    /\ Len(jd_docs) = 2
    /\ resume_docs[1] # resume_docs[2]
    /\ qa_chain.retriever = vectorstore

RetrievalUnavailable == "RetrievalUnavailable"

\* C11 as stated: when the embedding model fails, get_rag_chain fails with
\* RetrievalUnavailable and returns no retrieval interface.
C11_AsStated ==
    embed_error # "" =>
        /\ rag_pc = "raised"
        /\ rag_exc = RetrievalUnavailable
        /\ qa_chain = None

\* C11: when the embedding model fails, get_rag_chain fails with the
\* embedding model's own exception, assigns no index and returns no
\* retrieval interface; a returned interface holds every chunk.
C11_EmbedFailurePropagates ==
    /\ embed_error # "" =>
          /\ rag_pc = "raised"
          /\ rag_exc = embed_error
          /\ vectorstore = <<>>
          /\ qa_chain = None
    /\ qa_chain # None =>
          Len(qa_chain.retriever) = Len(resume_docs) + Len(jd_docs)

C11_Witness ==
    /\ rag_pc = "raised"
    /\ embed_error # ""
    /\ embeddings # None
    /\ Len(resume_docs) + Len(jd_docs) >= 2

-----------------------------------------------------------------------------
(* Further properties of the response parser *)

\* the loop is about to process a line
AtLine == pc = "loop" /\ idx < Len(lines)

\* the line the loop is about to process
NextLine == lines[idx + 1]

\* C13: a line is handled as the first of 'Matching Score:', 'Summary:',
\* 'Suggested Edits:' that it contains, compared case-sensitively: the
\* section becomes that marker's section and the fields of the other two
\* markers keep their values; a line that contains none of them, whatever
\* its letter case, leaves the section as it is.
C13_FirstMarkerInPriorityOrderWins ==
    [][AtLine =>
         /\ Contains(NextLine, ScoreMarker) =>
               /\ current_section' = "score"
               /\ summary' = summary
               /\ suggested_edits' = suggested_edits
         /\ (~Contains(NextLine, ScoreMarker) /\ Contains(NextLine, SummaryMarker)) =>
               /\ current_section' = "summary"
               /\ score' = score
               /\ suggested_edits' = suggested_edits
         /\ (~IsScoreOrSummaryLine(NextLine) /\ Contains(NextLine, EditsMarker)) =>
               /\ current_section' = "edits"
               /\ score' = score
               /\ summary' = summary
               /\ suggested_edits' = suggested_edits
         /\ ~IsMarkerLine(NextLine) =>
               /\ current_section' = current_section
               /\ score' = score]_vars

C13_Witness ==
    /\ Parsing
    /\ idx >= 2
    /\ lines[idx - 1] = "Summary: foo bar"
    /\ LastLine = "Matching Score: 7/10 Summary: x"
    /\ current_section = "score"
    /\ score = Some(7)
    /\ summary = "foo bar"

\* a line that is handled as a summary marker line
IsSummaryLine(l) == Contains(l, SummaryMarker) /\ ~Contains(l, ScoreMarker)

\* the greatest element of a non-empty set of numbers
Greatest(S) == CHOOSE x \in S : \A y \in S : y <= x

\* the least element of a non-empty set of numbers
Least(S) == CHOOSE x \in S : \A y \in S : x <= y

\* the text of line k after its first colon, trimmed
SeedOf(k) ==
    LET l == lines[k]
    IN  Strip(SubSeq(l, Find(l, ":") + 1, Len(l)))

RECURSIVE Absorbed(_, _)
\* the seed of line k followed by the lines k+1..n, each trimmed and
\* preceded by a newline
Absorbed(k, n) ==
    IF n <= k THEN SeedOf(k)
    ELSE Absorbed(k, n - 1) \o "\n" \o Strip(lines[n])

\* C14: while the last marker line read is a summary marker line, summary
\* is that line's text after its first colon, trimmed, followed by
\* newline plus trimmed text for every line read since, blank lines
\* included; with no later marker this holds to the end of the response.
C14_SummaryAbsorbsFollowingLines ==
    Parsing =>
        LET markers == { k \in 1..idx : IsMarkerLine(lines[k]) }
        IN  (markers # {} /\ IsSummaryLine(lines[Greatest(markers)])) =>
               summary = Absorbed(Greatest(markers), idx)

C14_Witness ==
    /\ pc = "returned"
    /\ lines = <<"Summary: Suggested Edits:", "", " - Add Python">>
    /\ result.summary = "Suggested Edits:\n\n- Add Python"

\* C15: a non-marker line read in no section or in the score section, and
\* a non-marker line of the edits section that does not start with '-',
\* changes none of score, summary, suggested_edits and current_section;
\* only a marker line changes current_section.
C15_DroppedLinesChangeNothing ==
    [][(AtLine /\ ~IsMarkerLine(NextLine)) =>
         /\ current_section' = current_section
         /\ (\/ current_section \in {NoSection, "score"}
             \/ /\ current_section = "edits"
                /\ ~StartsWith(Strip(NextLine), "-")) =>
               /\ score' = score
               /\ summary' = summary
               /\ suggested_edits' = suggested_edits]_vars

C15_Witness ==
    /\ Parsing
    /\ idx >= 2
    /\ lines[idx - 1] = "Suggested Edits:"
    /\ LastLine = "plain text"
    /\ current_section = "edits"
    /\ suggested_edits = <<>>

\* what a score marker line gives: the integer value of the text between
\* its first colon and the next colon, up to the first slash, or None
ScoreOfLine(l) ==
    LET t == Strip(Split(l, ":")[2])
        slash == Find(t, "/")
        before == IF slash = 0 THEN t ELSE SubSeq(t, 1, slash - 1)
    IN  IF IsInteger(before) THEN Some(PyInt(before).val) ELSE None

\* C17: the score is what the last score marker line read gives, so a
\* later line that does not parse replaces an earlier score by None; the
\* summary is seeded by the last summary marker line read and holds only
\* that seed and the lines between it and the next marker line.
C17_LastMarkerDecides ==
    Parsing =>
        LET scoreLines == { k \in 1..idx : Contains(lines[k], ScoreMarker) }
            summaryLines == { k \in 1..idx : IsSummaryLine(lines[k]) }
        IN  /\ score = IF scoreLines = {} THEN None
                       ELSE ScoreOfLine(lines[Greatest(scoreLines)])
            /\ summary =
                  IF summaryLines = {} THEN ""
                  ELSE LET k == Greatest(summaryLines)
                           later == { m \in (k + 1)..idx : IsMarkerLine(lines[m]) }
                       IN  Absorbed(k, IF later = {} THEN idx ELSE Least(later) - 1)

C17_Witness ==
    /\ pc = "returned"
    /\ response_text = ExampleDuplicated
    /\ result.matching_score = None
    /\ result.summary = "second"

\* C18: every processed line leaves suggested_edits as it is or adds one
\* element at its end; the edits of two edits sections of one response are
\* all kept, in the order met.
C18_EditsAppendOnly ==
    /\ [][AtLine =>
             \/ suggested_edits' = suggested_edits
             \/ /\ Len(suggested_edits') = Len(suggested_edits) + 1
                /\ SubSeq(suggested_edits', 1, Len(suggested_edits)) = suggested_edits]_vars
    /\ []((pc = "returned" /\ response_text = ExampleDuplicated)
           => result.suggested_edits = <<"- First", "- Second">>)

C18_Witness ==
    /\ pc = "returned"
    /\ response_text = ExampleDuplicated
    /\ Len(result.suggested_edits) = 2

-----------------------------------------------------------------------------
(* Further properties of the Streamlit script *)

\* the file name's last dot-separated piece is none of pdf, docx, txt
UnsupportedKind(name) ==
    LET pieces == Split(name, ".")
    IN  pieces[Len(pieces)] \notin {"pdf", "docx", "txt"}

\* the run is past its resume section
PastResumeSection == ui_pc \in {"jd", "analysis", "idle"}

Shown(m) == \E i \in DOMAIN messages : messages[i] = m

\* C16: in a run with an uploaded file of an unsupported kind, past the
\* resume section the error of load_document is shown, nothing was loaded,
\* resume_text is empty and the analysis is not called; when the run was
\* started by the Analyze button it ends with the missing-resume error.
C16_UnsupportedFileNeverAnalysed ==
    (PastResumeSection /\ uploaded_file # NoFile
       /\ UnsupportedKind(uploaded_file.name)) =>
        /\ Shown(Msg("error", "Error loading resume: Unsupported file type"))
        /\ \A i \in DOMAIN messages :
              messages[i].kind = "success" =>
                 ~StartsWith(messages[i].text, "Resume loaded")
        /\ resume_text = ""
        /\ analysis_calls = <<>>
        /\ results = None
        /\ (RunEnded /\ clicked = "analyze") =>
              messages[Len(messages)] = Msg("error", "Please upload a resume first!")

C16_Witness ==
    /\ RunEnded
    /\ clicked = "analyze"
    /\ uploaded_file.name = "cv.PDF"
    /\ jd_text # ""
    /\ env_key # ""
    /\ messages[Len(messages)] = Msg("error", "Please upload a resume first!")

\* C19 as stated: the score shown is "N/A" exactly when the result's
\* matching_score is None, and "<score>/100" for every integer score,
\* 0 included.
C19_ScoreShownUnlessAbsent ==
    (RunEnded /\ results # None) =>
        \E i \in DOMAIN messages :
            /\ messages[i].kind = "score"
            /\ (results[1].matching_score = None) <=> (messages[i].text = "N/A")
            /\ results[1].matching_score # None =>
                  messages[i].text = ToString(results[1].matching_score[1]) \o "/100"

\* C20: the temporary copy of the upload exists only inside the resume
\* section: it is gone when the run reaches the job description section,
\* whether the resume was loaded or loading raised.
C20_TmpFileGoneAfterResumeSection ==
    /\ PastResumeSection => tmp_files = {}
    /\ ui_pc # "load" => tmp_files = {}

C20_Witness ==
    /\ ui_pc = "jd"
    /\ uploaded_file.name = "cv.docx"
    /\ Shown(Msg("error", "Error loading resume: " \o LoaderFailure))
    /\ tmp_files = {}

====
